---- MODULE Spec2Model ----
(***************************************************************************)
(* Model of the gas-copy annotation pipeline:                              *)
(*   src/web/views.py            create_annotation_job_request (front end) *)
(*   src/ann/annotator.py        the polling dispatcher                    *)
(*   src/ann/annotator_webhook.py the webhook dispatcher (annotate)        *)
(*   src/ann/run.py              the completion reporter                   *)
(* The DynamoDB table, the SQS queue and the launched run.py processes are *)
(* the shared state.  Every call to an external service is one atomic      *)
(* step, so that dispatchers, the front end and reporters interleave at    *)
(* exactly the points where the code performs I/O.                         *)
(***************************************************************************)
EXTENDS Integers, FiniteSets, Sequences, TLC

(* ------------------------------ bounds -------------------------------- *)
\* messages ever published to the queue
MaxMsgs == 2
\* messages ever published by publishers other than the front end
MaxForeign == 1
\* messages ever handed out by receive_message (first deliveries and redeliveries)
MaxDeliveries == 2
\* annotator.py:119, MaxNumberOfMessages of the polling receive_message
MaxNumberOfMessages == 5
\* annotator_webhook.py:95, MaxNumberOfMessages of the webhook receive_message
WebhookMaxMessages == 1

Users == {"u1"}
\* job ids: j1 and j2 are the ids the front end generates; jx is an id that
\* only messages of other publishers name (no front end request generates it)
Jobs == {"j1", "j2", "jx"}
Pollers == {"p1", "p2"}
Webhooks == {"w1"}
Dispatchers == Pollers \cup Webhooks
\* the deployments: one polling annotator, two polling annotators on one
\* queue, or a polling annotator and the webhook annotator on one queue
Deployments == {{"p1"}, {"p1", "p2"}, {"p1", "w1"}}

(* --------------------------- the job store ---------------------------- *)
\* key schema of the annotations table (views.py get_item, annotator.py key)
KeySchema == {"user_id", "job_id"}
TableKeys == [user_id : Users, job_id : Jobs]
\* an item is a function from attribute names to values; NoItem is no item
NoItem == << >>
NoCond == "NoCond"

\* SetAttrs of a write that replaces the item by the attributes it sets (the
\* key kept), as put_item does
SetAttrsReplacesItem(item, sets) ==
  [a \in (KeySchema \cap DOMAIN item) \cup (DOMAIN sets) |->
      IF a \in DOMAIN sets THEN sets[a] ELSE item[a]]

SetAttrs(item, sets) ==
  [a \in (DOMAIN item) \cup (DOMAIN sets) |->
      IF a \in DOMAIN sets THEN sets[a] ELSE item[a]]

\* DynamoDB UpdateItem: SET the attributes of `sets` on the item with key
\* `key`, under the condition job_status = expected (when given).  A key that
\* does not match the table's key schema is rejected; an item that does not
\* exist fails any condition, and is created by an unconditional update.
\* `fault` is a failure of the service itself (throttling, transport).
UpdateItem(tbl, key, sets, expected, fault) ==
  IF fault THEN [table |-> tbl, result |-> "ServiceError"]
  ELSE IF DOMAIN key # KeySchema
    THEN [table |-> tbl, result |-> "ValidationException"]
  ELSE IF expected # NoCond
          /\ (tbl[key] = NoItem \/ tbl[key]["job_status"] # expected)
    THEN [table |-> tbl, result |-> "ConditionalCheckFailedException"]
  ELSE [table |-> [tbl EXCEPT ![key] =
                     SetAttrs(IF tbl[key] = NoItem THEN key ELSE tbl[key], sets)],
        result |-> "Ok"]

\* DynamoDB PutItem: replaces the whole item
PutItem(tbl, item, fault) ==
  IF fault THEN [table |-> tbl, result |-> "ServiceError"]
  ELSE [table |-> [tbl EXCEPT ![[user_id |-> item["user_id"],
                                 job_id |-> item["job_id"]]] = item],
        result |-> "Ok"]

(* ------------------------- notification bodies ------------------------ *)
\* A queue message body.  `wrapped`: the body is the SNS envelope, a JSON
\* object whose "Message" attribute holds the text; otherwise the body is the
\* text itself.  `form` is the shape of the text:
\*   "json"    a JSON object
\*   "apos"    a JSON object one of whose string values holds an apostrophe
\*   "pyrepr"  a Python dict literal (single-quoted strings)
\*   "garbage" no JSON and no dict literal
\* `data` is the object the text denotes: attribute name -> value.
Forms == {"json", "apos", "pyrepr", "garbage"}
Required == {"job_id", "user_id", "s3_key_input_file"}
S3_INPUT_BUCKET == "gas-inputs"
InputKey(u, j) == "k_" \o j

\* json.loads(text)
JsonLoads(form) == form \in {"json", "apos"}
\* json.loads(text.replace("'", '"'))
JsonLoadsReplaced(form) == form \in {"json", "pyrepr"}

\* annotator.py:129-136 and annotator_webhook.py:104-110: TRUE iff the
\* two json.loads calls return (do not raise)
LoadsBody(body) ==
  IF body.wrapped THEN JsonLoadsReplaced(body.form) ELSE JsonLoads(body.form)

\* dict.get(name): the value, or None
Get(data, name) == IF name \in DOMAIN data THEN data[name] ELSE "None"
\* Python truthiness of a str-or-None value
Falsy(v) == v \in {"None", ""}

\* ParsePolling without the test of the input key at line 146
ParsePollingNoKeyCheck(body) ==
  IF ~LoadsBody(body) THEN "raise"
  ELSE IF Falsy(Get(body.data, "job_id")) \/ Falsy(Get(body.data, "user_id"))
    THEN "invalid"
  ELSE "ok"

\* annotator.py:141-148: the outcome of parsing and validating one message:
\* "raise" (an exception, caught at line 172), "invalid" (line 146) or "ok"
ParsePolling(body) ==
  IF ~LoadsBody(body) THEN "raise"
  ELSE IF Falsy(Get(body.data, "job_id"))
          \/ Falsy(Get(body.data, "s3_key_input_file"))
          \/ Falsy(Get(body.data, "user_id"))
    THEN "invalid"
  ELSE "ok"

\* annotator_webhook.py:104-116: job["job_id"], job["user_id"] and
\* job["s3_key_input_file"] raise KeyError on a missing attribute
ParseWebhook(body) ==
  IF ~LoadsBody(body) THEN "raise"
  ELSE IF Required \subseteq DOMAIN body.data THEN "ok"
  ELSE "raise"

\* views.py:133-141, the item the front end writes and publishes
NewItem(u, j) ==
  [job_id |-> j, user_id |-> u, input_file_name |-> InputKey(u, j),
   s3_inputs_bucket |-> S3_INPUT_BUCKET, s3_key_input_file |-> InputKey(u, j),
   submit_time |-> "t_submit", job_status |-> "PENDING"]

\* views.py:152-158: json.dumps(item) published to the topic; the queue
\* subscription delivers it inside the SNS envelope
PublishedBody(item) == [wrapped |-> TRUE, form |-> "json", data |-> item]

\* the well-formed payload of a job, as any publisher of the topic can send it
JobData(u, j) ==
  [job_id |-> j, user_id |-> u, s3_key_input_file |-> InputKey(u, j)]
Without(data, name) == [a \in (DOMAIN data) \ {name} |-> data[a]]

\* Bodies that reach the queue from publishers other than the front end: an
\* unparseable text, a text whose apostrophe the replace() of the dispatchers
\* breaks, payloads with one required attribute missing, and a well-formed
\* raw payload for a job id that has no record.
ForeignBodies ==
  {[wrapped |-> FALSE, form |-> "garbage", data |-> << >>],
   [wrapped |-> TRUE, form |-> "apos", data |-> JobData("u1", "jx")],
   [wrapped |-> FALSE, form |-> "json", data |-> JobData("u1", "jx")]}
  \cup {[wrapped |-> TRUE, form |-> "json", data |-> Without(JobData("u1", "jx"), f)] :
          f \in Required}

NoMsg == [id |-> 0, body |-> [wrapped |-> FALSE, form |-> "garbage", data |-> << >>]]

(* ------------------------------- state -------------------------------- *)
VARIABLES
  table,       \* the annotations table: key -> item, or NoItem
  usedIds,     \* job ids the front end has generated (uuid4: never reused)
  fe,          \* the front end's request in progress
  queue,       \* the messages in the SQS queue
  sent,        \* every message that was ever enqueued
  deliveries,  \* messages handed out by receive_message so far
  pc,          \* each dispatcher's position in its code
  batch,       \* polling dispatcher: messages of the response not yet iterated
  cur,         \* each dispatcher's locals for the message it is processing
  resp,        \* webhook: the HTTP response being sent
  deployed,    \* the dispatcher instances that run against the queue
  procs,       \* the run.py processes launched so far
  results,     \* the keys of the objects in the results bucket
  rep          \* the run.py process that is followed statement by statement

vars == <<table, usedIds, fe, queue, sent, deliveries, pc, batch, cur, resp,
          deployed, procs, results, rep>>

\* no run.py process is followed statement by statement
NoRep == [pc |-> "none", job_id |-> "none", files |-> {}, temp_files |-> << >>,
          todo |-> << >>, failed |-> {}, update |-> "none"]

\* the locals of a dispatcher while it processes one message; they are dead,
\* and reset, once the message has been dealt with
EmptyCur ==
  [msg |-> NoMsg, job_id |-> "none", user_id |-> "none",
   key |-> "none", bucket |-> "none",
   claim |-> "none", ret |-> "none", download |-> "none", launch |-> "none"]

Init ==
  /\ table = [k \in TableKeys |-> NoItem]
  /\ usedIds = {}
  /\ fe = [pc |-> "idle", item |-> NoItem]
  /\ queue = {}
  /\ sent = {}
  /\ deliveries = 0
  /\ pc = [d \in Dispatchers |-> IF d \in Pollers THEN "poll" ELSE "idle"]
  /\ batch = [d \in Pollers |-> {}]
  /\ cur = [d \in Dispatchers |-> EmptyCur]
  /\ resp = [w \in Webhooks |-> "none"]
  /\ deployed \in Deployments
  /\ procs = {}
  /\ results = {}
  /\ rep = NoRep

NextMsgId == Cardinality(sent) + 1

\* views.py:126 uuid.uuid4(): an id no earlier request has generated and no
\* message names (the ids are interchangeable, so the model hands them out in
\* a fixed order)
FreshId == IF "j1" \notin usedIds THEN "j1" ELSE "j2"

(* ----------------------------- front end ------------------------------ *)
\* CreateJob of a request that goes on to publish when put_item has raised
CreateJobPublishesAnyway(u, j, fault) ==
  /\ fe.pc = "idle"
  /\ j = FreshId
  /\ j \notin usedIds
  /\ Cardinality(sent) < MaxMsgs
  /\ usedIds' = usedIds \cup {j}
  /\ table' = PutItem(table, NewItem(u, j), fault).table
  /\ fe' = [pc |-> "publish", item |-> NewItem(u, j)]
  /\ UNCHANGED <<rep, deployed, queue, sent, deliveries, pc, batch, cur, resp, procs, results>>

\* views.py:123-148: a job request generates a fresh job id and writes the
\* PENDING item; a failed write aborts the request with 500
CreateJob(u, j, fault) ==
  /\ fe.pc = "idle"
  /\ j = FreshId
  /\ j \notin usedIds
  /\ Cardinality(sent) < MaxMsgs
  /\ usedIds' = usedIds \cup {j}
  /\ LET r == PutItem(table, NewItem(u, j), fault) IN
       /\ table' = r.table
       /\ fe' = IF r.result = "Ok" THEN [pc |-> "publish", item |-> NewItem(u, j)]
                ELSE [pc |-> "idle", item |-> NoItem]
  /\ UNCHANGED <<rep, deployed, queue, sent, deliveries, pc, batch, cur, resp, procs, results>>

\* views.py:150-165: publish the item; a failed publish aborts with 500
PublishJob(fault) ==
  /\ fe.pc = "publish"
  /\ IF fault THEN UNCHANGED <<queue, sent>>
     ELSE LET m == [id |-> NextMsgId, body |-> PublishedBody(fe.item)] IN
            /\ queue' = queue \cup {m}
            /\ sent' = sent \cup {m}
  /\ fe' = [pc |-> "idle", item |-> NoItem]
  /\ UNCHANGED <<rep, deployed, table, usedIds, deliveries, pc, batch, cur, resp, procs, results>>

\* another publisher of the topic or queue enqueues a body
PublishForeign(body) ==
  /\ Cardinality(sent) + (IF fe.pc = "publish" THEN 1 ELSE 0) < MaxMsgs
  /\ Cardinality({m \in sent : m.body \in ForeignBodies}) < MaxForeign
  /\ LET m == [id |-> NextMsgId, body |-> body] IN
       /\ queue' = queue \cup {m}
       /\ sent' = sent \cup {m}
  /\ UNCHANGED <<rep, deployed, table, usedIds, fe, deliveries, pc, batch, cur, resp, procs, results>>

(* ------------------------ polling dispatcher -------------------------- *)
\* annotator.py:67-96 update_job_status: the table after the call, the
\* store's answer, what is printed, and the value returned to the caller.
\* Every path of the function returns None.
update_job_status(tbl, job_id, new_status, expected_status, user_id, fault) ==
  IF Falsy(user_id)
    THEN [table |-> tbl, store |-> "none", log |-> "missing user_id", ret |-> "None"]
  ELSE
    LET r == UpdateItem(tbl, [user_id |-> user_id, job_id |-> job_id],
                        [job_status |-> new_status], expected_status, fault)
    IN [table |-> r.table,
        store |-> r.result,
        log   |-> IF r.result = "Ok" THEN "status updated"
                  ELSE IF r.result = "ConditionalCheckFailedException"
                    THEN "skipping update"
                  ELSE "could not update",
        ret   |-> "None"]

\* AfterMsg of a loop that goes back to receive_message whatever is left of
\* the response
AfterMsgAbandonsBatch(b) == "poll"

\* the position after the body of the for loop (annotator.py:127): the next
\* message of the response, or the next receive_message
AfterMsg(b) == IF b = {} THEN "poll" ELSE "for"

\* annotator.py:117-125 and 176-178: receive_message raises (the loop sleeps
\* and polls again), returns no message, or returns up to five messages.  A
\* message stays in the queue until it is deleted, so it can be handed out
\* again (visibility timeout, duplicate delivery).
Poll(d, fault, b) ==
  /\ d \in Pollers \cap deployed /\ pc[d] = "poll"
  /\ b \subseteq queue
  /\ Cardinality(b) <= MaxNumberOfMessages
  /\ deliveries + Cardinality(b) <= MaxDeliveries
  /\ IF fault THEN /\ b = {}
                   /\ pc' = [pc EXCEPT ![d] = "sleep"]
                   /\ UNCHANGED <<batch, deliveries>>
     ELSE /\ pc' = [pc EXCEPT ![d] = AfterMsg(b)]
          /\ batch' = [batch EXCEPT ![d] = b]
          /\ deliveries' = deliveries + Cardinality(b)
  /\ UNCHANGED <<rep, deployed, table, usedIds, fe, queue, sent, cur, resp, procs, results>>

\* annotator.py:178: time.sleep(5), then the while loop polls again
Sleep(d) ==
  /\ d \in Pollers \cap deployed /\ pc[d] = "sleep"
  /\ pc' = [pc EXCEPT ![d] = "poll"]
  /\ UNCHANGED <<rep, deployed, table, usedIds, fe, queue, sent, deliveries, batch, cur, resp,
                 procs, results>>

\* annotator.py:127-150: take the next message of the response, parse and
\* validate it, and issue the PENDING -> RUNNING conditional update
Dispatch(d, m, fault) ==
  /\ d \in Pollers \cap deployed /\ pc[d] = "for"
  /\ m \in batch[d]
  /\ batch' = [batch EXCEPT ![d] = @ \ {m}]
  /\ LET p == ParsePolling(m.body) IN
       IF p # "ok"
         THEN /\ cur' = [cur EXCEPT ![d] = EmptyCur]
              /\ pc' = [pc EXCEPT ![d] = AfterMsg(batch'[d])]
              /\ UNCHANGED table
         ELSE LET job_id  == Get(m.body.data, "job_id")
                  user_id == Get(m.body.data, "user_id")
                  bucket  == IF "s3_inputs_bucket" \in DOMAIN m.body.data
                               THEN m.body.data["s3_inputs_bucket"]
                               ELSE S3_INPUT_BUCKET
                  key     == Get(m.body.data, "s3_key_input_file")
                  r == update_job_status(table, job_id, "RUNNING", "PENDING",
                                         user_id, fault)
              IN /\ table' = r.table
                 /\ cur' = [cur EXCEPT ![d] =
                      [EmptyCur EXCEPT !.msg = m, !.job_id = job_id,
                                       !.user_id = user_id, !.key = key,
                                       !.bucket = bucket,
                                       !.claim = r.store, !.ret = r.ret]]
                 /\ pc' = [pc EXCEPT ![d] = "download"]
  /\ UNCHANGED <<rep, deployed, usedIds, fe, queue, sent, deliveries, resp, procs, results>>

\* a run.py process as subprocess.Popen starts it
NewProc(job_id, user_id) ==
  [id |-> Cardinality(procs) + 1, job_id |-> job_id, user_id |-> user_id,
   pc |-> "running"]

\* annotator.py:155 and 170: the unconditional FAILED update
MarkFailed(tbl, c, fault) ==
  update_job_status(tbl, c.job_id, "FAILED", NoCond, c.user_id, fault).table

\* annotator.py:153-156 with download_from_s3 (47-64): the download returns
\* the local path, or None when it raised; on None the FAILED update is made
\* and the loop goes on with the next message, the message not deleted.  (A
\* failed download changes nothing outside the dispatcher, so it is one step
\* with the update that follows it.)
Download(d, ok, fault) ==
  /\ d \in Pollers \cap deployed /\ pc[d] = "download"
  /\ ok => ~fault
  /\ IF ok
       THEN /\ cur' = [cur EXCEPT ![d].download = "ok"]
            /\ pc' = [pc EXCEPT ![d] = "launch"]
            /\ UNCHANGED table
       ELSE /\ table' = MarkFailed(table, cur[d], fault)
            /\ cur' = [cur EXCEPT ![d] = EmptyCur]
            /\ pc' = [pc EXCEPT ![d] = AfterMsg(batch[d])]
  /\ UNCHANGED <<rep, deployed, usedIds, fe, queue, sent, deliveries, batch, resp,
                 procs, results>>

\* annotator.py:159-161 and 169-170 with launch_annotation (99-112): Popen
\* starts run.py and returns at once (True), or raises (False); on False the
\* FAILED update is made and the message is not deleted
Launch(d, ok, fault) ==
  /\ d \in Pollers \cap deployed /\ pc[d] = "launch"
  /\ ok => ~fault
  /\ IF ok
       THEN /\ cur' = [cur EXCEPT ![d].launch = "ok"]
            /\ procs' = procs \cup {NewProc(cur[d].job_id, cur[d].user_id)}
            /\ pc' = [pc EXCEPT ![d] = "ack"]
            /\ UNCHANGED table
       ELSE /\ table' = MarkFailed(table, cur[d], fault)
            /\ cur' = [cur EXCEPT ![d] = EmptyCur]
            /\ pc' = [pc EXCEPT ![d] = AfterMsg(batch[d])]
            /\ UNCHANGED procs
  /\ UNCHANGED <<rep, deployed, usedIds, fe, queue, sent, deliveries, batch, resp, results>>

\* Ack of a dispatcher that waits for the processes it started (as with
\* subprocess.run in place of Popen) before it goes on
AckAfterAnalysis(d, fault) ==
  /\ d \in Pollers \cap deployed /\ pc[d] = "ack"
  /\ \A p \in procs : p.pc # "running"
  /\ queue' = IF fault THEN queue ELSE queue \ {cur[d].msg}
  /\ cur' = [cur EXCEPT ![d] = EmptyCur]
  /\ pc' = [pc EXCEPT ![d] = AfterMsg(batch[d])]
  /\ UNCHANGED <<rep, deployed, table, usedIds, fe, sent, deliveries, batch, resp, procs, results>>

\* annotator.py:161-167 and 172-174: delete_message; when it raises, the
\* exception is caught and the loop goes on with the next message
Ack(d, fault) ==
  /\ d \in Pollers \cap deployed /\ pc[d] = "ack"
  /\ queue' = IF fault THEN queue ELSE queue \ {cur[d].msg}
  /\ cur' = [cur EXCEPT ![d] = EmptyCur]
  /\ pc' = [pc EXCEPT ![d] = AfterMsg(batch[d])]
  /\ UNCHANGED <<rep, deployed, table, usedIds, fe, sent, deliveries, batch, resp, procs, results>>

(* ------------------------ webhook dispatcher -------------------------- *)
\* annotator_webhook.py imports neither boto3, json, os, subprocess nor
\* traceback (lines 13-14); the handler is modelled as it is written, with
\* those names bound.
RequestTypes == {"SubscriptionConfirmation", "Notification", "Other"}

\* the answer of the request in progress: the handler sends it and is idle
Respond(w, r) ==
  /\ pc' = [pc EXCEPT ![w] = "respond"]
  /\ resp' = [resp EXCEPT ![w] = r]
  /\ cur' = [cur EXCEPT ![w] = EmptyCur]

\* annotator_webhook.py:71-116 and 151-155: one POST /process-job-request.
\* A subscription confirmation is confirmed (or 500 when that raises); any
\* other type but Notification is ignored; a Notification reads one message
\* of the queue and parses it.  `b` is what receive_message returns.
WRequest(w, type, fault, b) ==
  /\ w \in Webhooks \cap deployed /\ pc[w] = "idle"
  /\ b \subseteq queue
  /\ Cardinality(b) <= WebhookMaxMessages
  /\ deliveries + Cardinality(b) <= MaxDeliveries
  /\ (type # "Notification" \/ fault) => b = {}
  /\ type = "Other" => ~fault
  /\ deliveries' = deliveries + Cardinality(b)
  /\ IF type = "SubscriptionConfirmation"
       THEN Respond(w, IF fault THEN "500" ELSE "200 Subscription confirmed")
     ELSE IF type = "Other" THEN Respond(w, "200 Ignored")
     ELSE IF fault THEN Respond(w, "500")
     ELSE IF b = {} THEN Respond(w, "200 No SQS messages found")
     ELSE LET m == CHOOSE x \in b : TRUE IN
          IF ParseWebhook(m.body) # "ok" THEN Respond(w, "500")
          ELSE /\ cur' = [cur EXCEPT ![w] =
                    [EmptyCur EXCEPT !.msg = m,
                                     !.job_id = m.body.data["job_id"],
                                     !.user_id = m.body.data["user_id"],
                                     !.key = m.body.data["s3_key_input_file"],
                                     !.bucket = S3_INPUT_BUCKET]]
               /\ pc' = [pc EXCEPT ![w] = "download"]
               /\ UNCHANGED resp
  /\ UNCHANGED <<rep, deployed, table, usedIds, fe, queue, sent, batch, procs, results>>

\* annotator_webhook.py:121-127: the download; when it raises the request
\* ends with 500 (line 151)
WDownload(w, ok) ==
  /\ w \in Webhooks \cap deployed /\ pc[w] = "download"
  /\ IF ok THEN /\ cur' = [cur EXCEPT ![w].download = "ok"]
                /\ pc' = [pc EXCEPT ![w] = "update"]
                /\ UNCHANGED resp
     ELSE Respond(w, "500")
  /\ UNCHANGED <<rep, deployed, table, usedIds, fe, queue, sent, deliveries, batch,
                 procs, results>>

\* annotator_webhook.py:130-134: the RUNNING update, with no condition; when
\* it raises the request ends with 500
WUpdate(w, fault) ==
  /\ w \in Webhooks \cap deployed /\ pc[w] = "update"
  /\ LET r == UpdateItem(table,
                         [user_id |-> cur[w].user_id, job_id |-> cur[w].job_id],
                         [job_status |-> "RUNNING"], NoCond, fault)
     IN /\ table' = r.table
        /\ IF r.result = "Ok"
             THEN /\ cur' = [cur EXCEPT ![w].claim = r.result]
                  /\ pc' = [pc EXCEPT ![w] = "launch"]
                  /\ UNCHANGED resp
             ELSE Respond(w, "500")
  /\ UNCHANGED <<rep, deployed, usedIds, fe, queue, sent, deliveries, batch, procs, results>>

\* annotator_webhook.py:139-141: Popen starts run.py, or raises (500)
WLaunch(w, ok) ==
  /\ w \in Webhooks \cap deployed /\ pc[w] = "launch"
  /\ IF ok THEN /\ cur' = [cur EXCEPT ![w].launch = "ok"]
                /\ procs' = procs \cup {NewProc(cur[w].job_id, cur[w].user_id)}
                /\ pc' = [pc EXCEPT ![w] = "ack"]
                /\ UNCHANGED resp
     ELSE /\ Respond(w, "500")
          /\ UNCHANGED procs
  /\ UNCHANGED <<rep, deployed, table, usedIds, fe, queue, sent, deliveries, batch, results>>

\* WAck of a handler that answers 202 whether or not delete_message raised
WAckAcceptsAnyway(w, fault) ==
  /\ w \in Webhooks \cap deployed /\ pc[w] = "ack"
  /\ queue' = IF fault THEN queue ELSE queue \ {cur[w].msg}
  /\ Respond(w, "202 Job accepted")
  /\ UNCHANGED <<rep, deployed, table, usedIds, fe, sent, deliveries, batch, procs, results>>

\* annotator_webhook.py:144-149: delete_message, then 202; 500 when it raises
WAck(w, fault) ==
  /\ w \in Webhooks \cap deployed /\ pc[w] = "ack"
  /\ queue' = IF fault THEN queue ELSE queue \ {cur[w].msg}
  /\ Respond(w, IF fault THEN "500" ELSE "202 Job accepted")
  /\ UNCHANGED <<rep, deployed, table, usedIds, fe, sent, deliveries, batch, procs, results>>

\* the response is sent; the handler waits for the next request
WDone(w) ==
  /\ w \in Webhooks \cap deployed /\ pc[w] = "respond"
  /\ pc' = [pc EXCEPT ![w] = "idle"]
  /\ resp' = [resp EXCEPT ![w] = "none"]
  /\ UNCHANGED <<rep, deployed, table, usedIds, fe, queue, sent, deliveries, batch, cur,
                 procs, results>>

(* ------------------------ completion reporter ------------------------- *)
CNETID == "donma"
S3_RESULTS_BUCKET == "gas-results"
\* run.py:137-139
ResultKey(job_id) == CNETID \o "/" \o job_id \o "/" \o InputKey("", job_id) \o ".annotated"
LogKey(job_id) == CNETID \o "/" \o job_id \o "/" \o InputKey("", job_id) \o ".log"

\* run_update_job_status addressing the item by the table's full key
run_update_job_status_full_key(tbl, job_id, result_key, log_key, fault) ==
  LET r == UpdateItem(tbl, CHOOSE k \in TableKeys : k.job_id = job_id,
                      [s3_results_bucket |-> S3_RESULTS_BUCKET,
                       s3_key_result_file |-> result_key,
                       s3_key_log_file |-> log_key,
                       complete_time |-> "t_complete",
                       job_status |-> "COMPLETED"],
                      NoCond, fault)
  IN [table |-> r.table, store |-> r.result]

\* run.py:61-88 update_job_status: one UpdateItem that sets the result
\* attributes and COMPLETED, addressed by Key={"job_id": job_id}; an
\* exception is printed and swallowed.  The table's key is (user_id, job_id)
\* (annotator.py:74, views.py:234), so the store answers this key with a
\* validation error.
run_update_job_status(tbl, job_id, result_key, log_key, fault) ==
  LET r == UpdateItem(tbl, [job_id |-> job_id],
                      [s3_results_bucket |-> S3_RESULTS_BUCKET,
                       s3_key_result_file |-> result_key,
                       s3_key_log_file |-> log_key,
                       complete_time |-> "t_complete",
                       job_status |-> "COMPLETED"],
                      NoCond, fault)
  IN [table |-> r.table, store |-> r.result]

\* RunReporter of a run.py that makes its update, by the table's full key,
\* once the analysis is done and before the uploads
RunReporterUpdatesBeforeUploads(p, analysis, up1, up2, fault) ==
  /\ p \in procs /\ p.pc = "running"
  /\ analysis \in {"ok", "raise", "no_output"}
  /\ (analysis # "ok" => ~up1) /\ (~up1 => ~up2) /\ (~up2 => ~fault)
  /\ LET uploaded1 == analysis = "ok" /\ up1
         uploaded2 == uploaded1 /\ up2
         r == run_update_job_status_full_key(table, p.job_id, ResultKey(p.job_id),
                                             LogKey(p.job_id), fault)
     IN /\ results' = results
                        \cup (IF uploaded1 THEN {ResultKey(p.job_id)} ELSE {})
                        \cup (IF uploaded2 THEN {LogKey(p.job_id)} ELSE {})
        /\ table' = IF analysis = "ok" THEN r.table ELSE table
        /\ procs' = (procs \ {p})
                      \cup {[p EXCEPT !.pc = IF uploaded2 THEN "done" ELSE "exit1"]}
  /\ UNCHANGED <<rep, deployed, usedIds, fe, queue, sent, deliveries, pc, batch, cur, resp>>

\* run.py:111-160, one run of the reporter from start to exit.
\*   analysis: driver.run returns and an output file is found ("ok"), or
\*             driver.run raises ("raise"), or no output is found
\*             ("no_output"); the last two exit with status 1 (lines 121, 160)
\*   up1, up2: the two uploads succeed; upload_to_s3 re-raises, so a failed
\*             upload exits with status 1 before any table write
\*   fault:    the table service fails on the final update
\* The table write of line 146 is the only access to the table, and nothing
\* in the pipeline reads the results bucket, so the run is one atomic step.
RunReporter(p, analysis, up1, up2, fault) ==
  /\ p \in procs /\ p.pc = "running"
  /\ analysis \in {"ok", "raise", "no_output"}
  /\ (analysis # "ok" => ~up1) /\ (~up1 => ~up2) /\ (~up2 => ~fault)
  /\ LET uploaded1 == analysis = "ok" /\ up1
         uploaded2 == uploaded1 /\ up2
         r == run_update_job_status(table, p.job_id, ResultKey(p.job_id),
                                    LogKey(p.job_id), fault)
     IN /\ results' = results
                        \cup (IF uploaded1 THEN {ResultKey(p.job_id)} ELSE {})
                        \cup (IF uploaded2 THEN {LogKey(p.job_id)} ELSE {})
        /\ table' = IF uploaded2 THEN r.table ELSE table
        /\ procs' = (procs \ {p})
                      \cup {[p EXCEPT !.pc = IF uploaded2 THEN "done" ELSE "exit1"]}
  /\ UNCHANGED <<rep, deployed, usedIds, fe, queue, sent, deliveries, pc, batch, cur, resp>>

(* ----------------- completion reporter, step by step ------------------ *)
\* One run of run.py followed statement by statement, with the files of the
\* job's local directory.  RunReporter above is the same run as one step.
\* the local files: argv[1], what driver.run writes next to it, and the two
\* files run.py creates (lines 125, 129)
InputFile == "in.vcf"
TempFiles == {"in.vcf.t1", "in.vcf.t2"}
AnnotatedPath == InputFile \o ".annotated"
LogPath == InputFile \o ".log"

\* sorted(glob.glob(input_file_name + ".*")) (line 118) over the files fs
Glob(fs) ==
  LET a == IF AnnotatedPath \in fs THEN <<AnnotatedPath>> ELSE << >>
      l == IF LogPath \in fs THEN <<LogPath>> ELSE << >>
      t1 == IF "in.vcf.t1" \in fs THEN <<"in.vcf.t1">> ELSE << >>
      t2 == IF "in.vcf.t2" \in fs THEN <<"in.vcf.t2">> ELSE << >>
  IN a \o l \o t1 \o t2

Range(seq) == {seq[i] : i \in DOMAIN seq}

\* sys.exit(1): lines 121 and 160
Exit1 == rep' = [rep EXCEPT !.pc = "exit1"]
RFrame == UNCHANGED <<usedIds, fe, queue, sent, deliveries, pc, batch, cur,
                      resp, deployed, procs>>

\* run.py:113: driver.run writes its output files next to the input and
\* returns, or raises (having written some of them)
RDriverRun(out, ok) ==
  /\ rep.pc = "run"
  /\ out \subseteq TempFiles
  /\ rep' = [rep EXCEPT !.files = @ \cup out,
                        !.pc = IF ok THEN "glob" ELSE "exit1"]
  /\ RFrame /\ UNCHANGED <<table, results>>

\* run.py:118-121: the output files are looked up; none found is exit 1
RGlob ==
  /\ rep.pc = "glob"
  /\ LET found == Glob(rep.files) IN
       IF found = << >> THEN Exit1
       ELSE rep' = [rep EXCEPT !.temp_files = found, !.pc = "copy"]
  /\ RFrame /\ UNCHANGED <<table, results>>

\* run.py:124-126: shutil.copy of the last output file to the annotated file
RCopy(ok) ==
  /\ rep.pc = "copy"
  /\ IF ok THEN rep' = [rep EXCEPT !.files = @ \cup {AnnotatedPath}, !.pc = "log"]
     ELSE Exit1
  /\ RFrame /\ UNCHANGED <<table, results>>

\* run.py:129-132: the log file is written
RWriteLog(ok) ==
  /\ rep.pc = "log"
  /\ IF ok THEN rep' = [rep EXCEPT !.files = @ \cup {LogPath}, !.pc = "upload1"]
     ELSE Exit1
  /\ RFrame /\ UNCHANGED <<table, results>>

\* run.py:142 with upload_to_s3 (46-58): the result is uploaded, or the
\* exception is re-raised and the run exits with 1
RUploadResult(ok) ==
  /\ rep.pc = "upload1"
  /\ IF ok THEN /\ results' = results \cup {ResultKey(rep.job_id)}
                /\ rep' = [rep EXCEPT !.pc = "upload2"]
     ELSE Exit1 /\ UNCHANGED results
  /\ RFrame /\ UNCHANGED table

\* run.py:143: the log is uploaded
RUploadLog(ok) ==
  /\ rep.pc = "upload2"
  /\ IF ok THEN /\ results' = results \cup {LogKey(rep.job_id)}
                /\ rep' = [rep EXCEPT !.pc = "update"]
     ELSE Exit1 /\ UNCHANGED results
  /\ RFrame /\ UNCHANGED table

\* run.py:146 and 149: update_job_status (which returns whatever the store
\* answered), then the list of the paths to delete is built
RUpdate(fault) ==
  /\ rep.pc = "update"
  /\ LET r == run_update_job_status(table, rep.job_id, ResultKey(rep.job_id),
                                    LogKey(rep.job_id), fault)
     IN /\ table' = r.table
        /\ rep' = [rep EXCEPT !.update = r.store, !.pc = "cleanup",
                              !.todo = <<InputFile, AnnotatedPath, LogPath>>
                                         \o rep.temp_files]
  /\ RFrame /\ UNCHANGED results

\* RRemove of a cleanup loop without the try around os.remove: the first
\* failure goes to the except clause of line 158 and exits with 1
RRemoveFatal(ok) ==
  /\ rep.pc = "cleanup" /\ rep.todo # << >>
  /\ LET path == Head(rep.todo) IN
       /\ ok => path \in rep.files
       /\ rep' = IF ok
                   THEN [rep EXCEPT !.files = @ \ {path}, !.todo = Tail(@),
                                    !.pc = IF Tail(rep.todo) = << >> THEN "exit0"
                                           ELSE "cleanup"]
                   ELSE [rep EXCEPT !.failed = @ \cup {path}, !.pc = "exit1"]
  /\ RFrame /\ UNCHANGED <<table, results>>

\* run.py:149-156: one iteration of the cleanup loop: os.remove of the next
\* path deletes the file, or raises (the file is not there, or it cannot be
\* deleted), which is printed; after the last path the run ends with status 0
RRemove(ok) ==
  /\ rep.pc = "cleanup" /\ rep.todo # << >>
  /\ LET path == Head(rep.todo) IN
       /\ ok => path \in rep.files
       /\ rep' = [rep EXCEPT !.files = IF ok THEN @ \ {path} ELSE @,
                             !.failed = IF ok THEN @ ELSE @ \cup {path},
                             !.todo = Tail(@),
                             !.pc = IF Tail(rep.todo) = << >> THEN "exit0"
                                    ELSE "cleanup"]
  /\ RFrame /\ UNCHANGED <<table, results>>

\* the statuses a record can have when run.py is launched for its job:
\* RUNNING after the claim, PENDING after a claim that the store failed,
\* FAILED after an earlier dispatch of the same notification failed
LaunchStatuses == {"PENDING", "RUNNING", "FAILED"}

\* the pipeline at the start of a run.py process for job j1: the record is
\* there, the notification is deleted, the input file is downloaded
RInit ==
  /\ \E st \in LaunchStatuses :
       table = [k \in TableKeys |->
                  IF k = [user_id |-> "u1", job_id |-> "j1"]
                    THEN [NewItem("u1", "j1") EXCEPT !.job_status = st]
                    ELSE NoItem]
  /\ usedIds = {"j1"}
  /\ fe = [pc |-> "idle", item |-> NoItem]
  /\ queue = {}
  /\ sent = {[id |-> 1, body |-> PublishedBody(NewItem("u1", "j1"))]}
  /\ deliveries = 1
  /\ pc = [d \in Dispatchers |-> IF d \in Pollers THEN "poll" ELSE "idle"]
  /\ batch = [d \in Pollers |-> {}]
  /\ cur = [d \in Dispatchers |-> EmptyCur]
  /\ resp = [w \in Webhooks |-> "none"]
  /\ deployed = {"p1"}
  /\ procs = {}
  /\ results = {}
  /\ rep = [NoRep EXCEPT !.pc = "run", !.job_id = "j1", !.files = {InputFile}]

RNext ==
  \/ \E out \in SUBSET TempFiles, ok \in BOOLEAN : RDriverRun(out, ok)
  \/ RGlob
  \/ \E ok \in BOOLEAN : RCopy(ok)
  \/ \E ok \in BOOLEAN : RWriteLog(ok)
  \/ \E ok \in BOOLEAN : RUploadResult(ok)
  \/ \E ok \in BOOLEAN : RUploadLog(ok)
  \/ \E fault \in BOOLEAN : RUpdate(fault)
  \/ \E ok \in BOOLEAN : RRemove(ok)

\* one run of the completion reporter
ReporterSpec == RInit /\ [][RNext]_vars

(* --------------------------- specification ---------------------------- *)
Next ==
  \/ \E u \in Users, j \in Jobs, fault \in BOOLEAN : CreateJob(u, j, fault)
  \/ \E fault \in BOOLEAN : PublishJob(fault)
  \/ \E body \in ForeignBodies : PublishForeign(body)
  \/ \E d \in Pollers, fault \in BOOLEAN, b \in SUBSET queue : Poll(d, fault, b)
  \/ \E d \in Pollers : Sleep(d)
  \/ \E d \in Pollers, m \in queue \cup sent, fault \in BOOLEAN : Dispatch(d, m, fault)
  \/ \E d \in Pollers, ok \in BOOLEAN, fault \in BOOLEAN : Download(d, ok, fault)
  \/ \E d \in Pollers, ok \in BOOLEAN, fault \in BOOLEAN : Launch(d, ok, fault)
  \/ \E d \in Pollers, fault \in BOOLEAN : Ack(d, fault)
  \/ \E w \in Webhooks, type \in RequestTypes, fault \in BOOLEAN, b \in SUBSET queue :
       WRequest(w, type, fault, b)
  \/ \E w \in Webhooks, ok \in BOOLEAN : WDownload(w, ok)
  \/ \E w \in Webhooks, fault \in BOOLEAN : WUpdate(w, fault)
  \/ \E w \in Webhooks, ok \in BOOLEAN : WLaunch(w, ok)
  \/ \E w \in Webhooks, fault \in BOOLEAN : WAck(w, fault)
  \/ \E w \in Webhooks : WDone(w)
  \/ \E p \in procs, analysis \in {"ok", "raise", "no_output"},
        up1 \in BOOLEAN, up2 \in BOOLEAN, fault \in BOOLEAN :
       RunReporter(p, analysis, up1, up2, fault)

Spec == Init /\ [][Next]_vars

(* ------------------------------ properties ---------------------------- *)
StatusIn(tbl, k) == IF tbl[k] = NoItem THEN "NoItem" ELSE tbl[k]["job_status"]
Status(k) == StatusIn(table, k)
KeyOf(c) == [user_id |-> c.user_id, job_id |-> c.job_id]
Processing(d) == cur[d].msg # NoMsg
\* the record with key k exists and was written by the front end
FrontEndRecord(k) == table[k] # NoItem /\ "submit_time" \in DOMAIN table[k]
Rejected == "ConditionalCheckFailedException"

\* the step in which poller d issues the PENDING -> RUNNING update
ClaimStep(d) == d \in Pollers /\ pc[d] = "for" /\ pc'[d] = "download"
\* the step in which poller d's download fails
DownloadFailStep(d) == d \in Pollers /\ pc[d] = "download" /\ pc'[d] # "launch"
\* the step in which poller d's launch fails
LaunchFailStep(d) == d \in Pollers /\ pc[d] = "launch" /\ pc'[d] # "ack"
\* the step in which dispatcher d deletes its message from the queue
AckStep(d) == pc[d] = "ack" /\ cur[d].msg \in queue /\ cur[d].msg \notin queue'

\* a payload that no JSON parser reads, or that lacks a required attribute
Malformed(body) ==
  \/ body.form = "garbage"
  \/ \E f \in Required : f \notin DOMAIN body.data

\* C1: every change of the status of an existing record is PENDING -> RUNNING,
\* RUNNING -> COMPLETED or RUNNING -> FAILED.
C1_OnlyForwardTransitions ==
  [][\A k \in TableKeys :
       (table[k] # NoItem /\ StatusIn(table', k) # Status(k))
         => <<Status(k), StatusIn(table', k)>> \in
              {<<"PENDING", "RUNNING">>, <<"RUNNING", "COMPLETED">>,
               <<"RUNNING", "FAILED">>}]_vars

\* C2: once a record (one that the front end created) is COMPLETED or FAILED,
\* no step changes its status.
C2_TerminalAbsorbing ==
  [][\A k \in TableKeys :
       (FrontEndRecord(k) /\ Status(k) \in {"COMPLETED", "FAILED"})
         => StatusIn(table', k) = Status(k)]_vars

\* C3: a dispatch whose PENDING -> RUNNING update was rejected because the
\* record is already RUNNING or later downloads nothing and launches nothing.
C3_NoStagingAfterRejectedClaim ==
  \A d \in Pollers :
    (Processing(d) /\ cur[d].claim = Rejected
       /\ Status(KeyOf(cur[d])) \in {"RUNNING", "COMPLETED", "FAILED"})
      => (cur[d].download = "none" /\ cur[d].launch = "none")

\* C4: of two polling dispatchers that process the same notification of a
\* PENDING job, exactly one makes the PENDING -> RUNNING transition and the
\* other neither downloads nor launches.
C4_OneClaimantOneBystander ==
  \A d1, d2 \in Pollers :
    (d1 # d2 /\ Processing(d1) /\ cur[d1].msg = cur[d2].msg /\ cur[d1].claim = "Ok")
      => (cur[d2].claim # "Ok"
          /\ cur[d2].download = "none" /\ cur[d2].launch = "none")

\* C5: whenever a dispatcher deletes a notification, the analysis of its job
\* has been launched and the job's record is not PENDING.
C5_AckOnlyAfterClaimAndLaunch ==
  [][\A d \in Dispatchers :
       AckStep(d) => (cur[d].launch = "ok" /\ Status(KeyOf(cur[d])) # "PENDING")]_vars

\* C6: when the download fails, the record is set to FAILED and the
\* notification is deleted from the queue.
C6_DownloadFailureFailsAndAcks ==
  [][\A d \in Pollers :
       DownloadFailStep(d)
         => (StatusIn(table', KeyOf(cur[d])) = "FAILED" /\ cur[d].msg \notin queue')]_vars

\* C7: when the launch fails after a successful download, the record is set
\* to FAILED and the notification is deleted from the queue.
C7_LaunchFailureFailsAndAcks ==
  [][\A d \in Pollers :
       LaunchFailStep(d)
         => (StatusIn(table', KeyOf(cur[d])) = "FAILED" /\ cur[d].msg \notin queue')]_vars

\* C8: a malformed notification is never deleted from the queue, and no
\* dispatcher, polling or webhook, ever goes past parsing with it: the table
\* updates, the download, the launch and the delete_message are all made by a
\* dispatcher that is processing a message, and that message is well-formed.
C8_MalformedNeverProcessed ==
  /\ \A m \in sent : Malformed(m.body) => m \in queue
  /\ \A d \in Dispatchers : Processing(d) => ~Malformed(cur[d].msg.body)
  /\ \A d \in Dispatchers : ~Processing(d) => pc[d] \in {"poll", "sleep", "for", "idle", "respond"}

\* C8 witness: a malformed notification has been received and dealt with by a
\* dispatcher, which is back to waiting, and the notification is still queued
C8_Witness ==
  /\ sent # {} /\ queue = sent
  /\ \A m \in sent : Malformed(m.body)
  /\ deliveries > 0
  /\ \A d \in deployed : pc[d] \in {"poll", "idle"}
  /\ \A d \in Pollers : batch[d] = {}

\* what update_job_status returns to its caller when the update is made
ReturnedOnSuccess ==
  update_job_status([k \in TableKeys |-> NewItem(k.user_id, k.job_id)],
                    "j1", "RUNNING", "PENDING", "u1", FALSE).ret

\* C9: a status update whose expected status differs from the record's
\* leaves the table unchanged and returns to its caller an outcome that
\* differs from the one of a successful update.
C9_RejectedUpdateReported ==
  [][\A d \in Pollers :
       (ClaimStep(d) /\ cur'[d].claim = Rejected /\ table[KeyOf(cur'[d])] # NoItem)
         => (table' = table /\ cur'[d].ret # ReturnedOnSuccess)]_vars

\* C10: when the PENDING -> RUNNING update is rejected, the dispatcher
\* deletes the notification and stops processing it.
C10_RejectedClaimAcksAndStops ==
  [][\A d \in Pollers :
       (pc[d] = "for" /\ cur'[d].claim = Rejected /\ cur[d] # cur'[d]
          /\ table[KeyOf(cur'[d])] # NoItem)
         => (cur'[d].msg \notin queue' /\ pc'[d] \notin {"download", "launch", "ack"})]_vars

\* C11: when a polling dispatcher finishes the dispatch of a well-formed
\* notification of a job whose record was PENDING (its claim succeeded, or the
\* record is PENDING still), the download and the launch having succeeded and
\* delete_message returning, the record is RUNNING and the notification is no
\* longer in the queue.
C11_PendingDispatchedRunsAndAcks ==
  [][\A d \in Pollers :
       (Ack(d, FALSE)
          /\ (cur[d].claim = "Ok" \/ Status(KeyOf(cur[d])) = "PENDING"))
         => (StatusIn(table', KeyOf(cur[d])) = "RUNNING"
             /\ cur[d].msg \notin queue')]_vars

\* the key of the record of the job that run.py process p works for
ProcKey(p) == [user_id |-> p.user_id, job_id |-> p.job_id]
\* the attributes that run.py's update sets besides the status
ResultAttrs == {"s3_results_bucket", "s3_key_result_file", "s3_key_log_file",
                "complete_time"}

\* C12: the run of the reporter in which the analysis and both uploads
\* succeed and the table service is up leaves the record (user_id, job_id) of
\* its job COMPLETED, with the results bucket, the completion time and the
\* keys under which the result and the log were uploaded.
C12_ReporterCompletesRecord ==
  [][\A p \in procs :
       (RunReporter(p, "ok", TRUE, TRUE, FALSE) /\ FrontEndRecord(ProcKey(p)))
         => LET item == table'[ProcKey(p)] IN
              /\ Get(item, "job_status") = "COMPLETED"
              /\ ResultAttrs \subseteq DOMAIN item
              /\ item["s3_results_bucket"] = S3_RESULTS_BUCKET
              /\ item["s3_key_result_file"] = ResultKey(p.job_id)
              /\ item["s3_key_log_file"] = LogKey(p.job_id)
              /\ {ResultKey(p.job_id), LogKey(p.job_id)} \subseteq results']_vars

\* C13: the run of the reporter in which the analysis raises, or leaves no
\* output file, sets the RUNNING record of its job to FAILED.
C13_AnalysisFailureMarksFailed ==
  [][\A p \in procs : \A analysis \in {"raise", "no_output"} :
       (RunReporter(p, analysis, FALSE, FALSE, FALSE)
          /\ FrontEndRecord(ProcKey(p)) /\ Status(ProcKey(p)) = "RUNNING")
         => StatusIn(table', ProcKey(p)) = "FAILED"]_vars

(* ------------------------------ scheduling ---------------------------- *)
\* annotator.py:114-178: the polling dispatcher is a running process, its
\* while True loop takes its next step
PollerStep(d) ==
  \/ \E fault \in BOOLEAN, b \in SUBSET queue : Poll(d, fault, b)
  \/ Sleep(d)
  \/ \E m \in queue \cup sent, fault \in BOOLEAN : Dispatch(d, m, fault)
  \/ \E ok \in BOOLEAN, fault \in BOOLEAN : Download(d, ok, fault)
  \/ \E ok \in BOOLEAN, fault \in BOOLEAN : Launch(d, ok, fault)
  \/ \E fault \in BOOLEAN : Ack(d, fault)

\* annotator_webhook.py:117-155: the handler of a request that was accepted
\* runs on to its response (requests themselves come from outside)
HandlerStep(w) ==
  \/ \E ok \in BOOLEAN : WDownload(w, ok)
  \/ \E fault \in BOOLEAN : WUpdate(w, fault)
  \/ \E ok \in BOOLEAN : WLaunch(w, ok)
  \/ \E fault \in BOOLEAN : WAck(w, fault)
  \/ WDone(w)

\* run.py:91-160: a launched run.py process runs to its exit (driver.run
\* returns or raises)
ReporterStep ==
  \E p \in procs, analysis \in {"ok", "raise", "no_output"},
     up1 \in BOOLEAN, up2 \in BOOLEAN, fault \in BOOLEAN :
    RunReporter(p, analysis, up1, up2, fault)

\* the pipeline under fair scheduling of its processes
LiveSpec ==
  /\ Init /\ [][Next]_vars
  /\ \A d \in Pollers : WF_vars(PollerStep(d))
  /\ \A w \in Webhooks : WF_vars(HandlerStep(w))
  /\ WF_vars(ReporterStep)

\* a notification that names the job of key k is in the queue
Queued(k) == \E m \in queue : Get(m.body.data, "job_id") = k.job_id

\* C14: under fair scheduling every job whose notification was delivered,
\* taken up and acknowledged (its front-end record is RUNNING and no
\* notification of it is left to redeliver) eventually has the status
\* COMPLETED or FAILED.
C14_EveryDispatchedJobTerminates ==
  \A k \in TableKeys :
    (FrontEndRecord(k) /\ Status(k) = "RUNNING" /\ ~Queued(k))
      ~> (Status(k) \in {"COMPLETED", "FAILED"})

\* the positions of the polling loop in which a message is being processed
InMessage == {"download", "launch", "ack"}

\* C15: a deployed polling dispatcher is never halted: it is at a position of
\* its loop from which it can take a step that changes the state; messages of
\* the response that are not yet iterated are never abandoned (the loop is in
\* the body of the for statement or at its head, where the next one is
\* taken); and with nothing left it is polling, or sleeping before it polls.
C15_DispatcherNeverHalts ==
  \A d \in Pollers \cap deployed :
    /\ pc[d] \in {"poll", "sleep", "for"} \cup InMessage
    /\ ENABLED <<PollerStep(d)>>_vars
    /\ Processing(d) <=> pc[d] \in InMessage
    /\ (batch[d] # {} /\ ~Processing(d)) => pc[d] = "for"
    /\ pc[d] = "for" => \A m \in batch[d] : ENABLED Dispatch(d, m, FALSE)
    /\ (batch[d] = {} /\ ~Processing(d)) => pc[d] \in {"poll", "sleep"}

\* C15 witness: a dispatcher received two messages in one response, the
\* processing of the first failed (its record is FAILED, it is still queued),
\* and the dispatcher is at the head of the for loop with the second one
C15_Witness ==
  \E d \in Pollers \cap deployed :
    /\ pc[d] = "for" /\ Cardinality(batch[d]) = 1
    /\ deliveries = 2
    /\ \E m \in queue \ batch[d] :
         /\ ParsePolling(m.body) = "ok"
         /\ Status([user_id |-> m.body.data["user_id"],
                    job_id |-> m.body.data["job_id"]]) = "FAILED"

\* C16: in every dispatch, of a polling dispatcher or of the webhook handler,
\* the input is downloaded only after the RUNNING write of that dispatch was
\* made, the analysis is launched only after the download succeeded, and the
\* notification is deleted only after the launch succeeded.
C16_ClaimDownloadLaunchAckInOrder ==
  \A d \in Dispatchers :
    /\ cur[d].download = "ok" => cur[d].claim = "Ok"
    /\ cur[d].launch = "ok" => cur[d].download = "ok"
    /\ pc[d] = "ack" => cur[d].launch = "ok"

(* ------------------ one notification, start to finish ----------------- *)
\* what the processing of a message leaves behind: the table, whether the
\* message was deleted and whether run.py was launched
Outcome(tbl, acked, launched) ==
  [table |-> tbl, acked |-> acked, launched |-> launched]

\* annotator.py:127-170: the body of the for loop run for message m on table
\* tbl with no other process in between and every service up; dl and la tell
\* whether the download and the launch succeed
PollingOutcome(tbl, m, dl, la) ==
  IF ParsePolling(m.body) # "ok" THEN Outcome(tbl, FALSE, FALSE)
  ELSE LET c == [job_id |-> Get(m.body.data, "job_id"),
                 user_id |-> Get(m.body.data, "user_id")]
           r == update_job_status(tbl, c.job_id, "RUNNING", "PENDING",
                                  c.user_id, FALSE)
       IN IF ~dl THEN Outcome(MarkFailed(r.table, c, FALSE), FALSE, FALSE)
          ELSE IF ~la THEN Outcome(MarkFailed(r.table, c, FALSE), FALSE, FALSE)
          ELSE Outcome(r.table, TRUE, TRUE)

\* annotator_webhook.py:102-153: the Notification branch of annotate run for
\* message m, in the same conditions
WebhookOutcome(tbl, m, dl, la) ==
  IF ParseWebhook(m.body) # "ok" THEN Outcome(tbl, FALSE, FALSE)
  ELSE IF ~dl THEN Outcome(tbl, FALSE, FALSE)
  ELSE LET r == UpdateItem(tbl, [user_id |-> m.body.data["user_id"],
                                 job_id |-> m.body.data["job_id"]],
                           [job_status |-> "RUNNING"], NoCond, FALSE)
       IN IF ~la THEN Outcome(r.table, FALSE, FALSE)
          ELSE Outcome(r.table, TRUE, TRUE)

\* the key of the record that a message with all required attributes names
MsgKey(m) == [user_id |-> m.body.data["user_id"], job_id |-> m.body.data["job_id"]]

\* C17: for every queued notification of a job that has a record, whatever
\* the status of the record, and for every outcome of the download and of the
\* launch, the webhook handler and the polling dispatcher leave the same
\* table, and both delete the notification or both leave it in the queue.
C17_WebhookSameAsPolling ==
  \A m \in queue : \A dl \in BOOLEAN, la \in BOOLEAN :
    (Required \subseteq DOMAIN m.body.data /\ FrontEndRecord(MsgKey(m)))
      => LET a == PollingOutcome(table, m, dl, la)
             b == WebhookOutcome(table, m, dl, la)
         IN a.table = b.table /\ a.acked = b.acked

ExitStep(p) ==
  /\ p \in procs /\ p.pc = "running"
  /\ \E q \in procs' : q.id = p.id /\ q.pc # "running"

AnalysisRunning == \E p \in procs : p.pc = "running"

\* C20: while an analysis is running, no deployed polling dispatcher waits for
\* it: the dispatcher that launched it can delete the notification, and every
\* dispatcher can take the next step of its loop, receive the queued messages
\* (within the bound on deliveries) and launch the next analysis.
C20_DispatcherDoesNotWait ==
  \A d \in Pollers \cap deployed :
    AnalysisRunning =>
      /\ ENABLED <<PollerStep(d)>>_vars
      /\ pc[d] = "ack" => ENABLED Ack(d, FALSE)
      /\ pc[d] = "launch" => ENABLED Launch(d, TRUE, FALSE)
      /\ pc[d] = "poll" =>
           \A b \in SUBSET queue :
             (Cardinality(b) <= MaxNumberOfMessages
                /\ deliveries + Cardinality(b) <= MaxDeliveries)
               => ENABLED Poll(d, FALSE, b)

\* C20 witness: with a single polling dispatcher deployed, two jobs are
\* RUNNING, the analysis of each is running, both notifications are deleted
\* and the dispatcher is polling
C20_Witness ==
  /\ deployed = {"p1"} /\ pc["p1"] = "poll" /\ queue = {}
  /\ \A j \in {"j1", "j2"} :
       /\ Status([user_id |-> "u1", job_id |-> j]) = "RUNNING"
       /\ \E p \in procs : p.job_id = j /\ p.pc = "running"

\* C21: every step of the reporter's cleanup loop, whether its os.remove
\* succeeds or fails, leaves the table as it is and goes on to the next path
\* or to the normal end of the run, never to the exit with status 1; at the
\* end of the run every path of the list was tried, so a local file that is
\* left is one whose deletion failed, and when no deletion failed no local
\* file is left.
C21_CleanupBestEffort ==
  [][/\ rep.pc = "cleanup"
          => (table' = table /\ rep'.pc \in {"cleanup", "exit0"})
     /\ rep'.pc = "exit0"
          => /\ rep'.todo = << >>
             /\ rep'.files \subseteq rep'.failed
             /\ rep'.failed = {} => rep'.files = {}]_vars

\* C21 witness: the run has ended normally, the deletion of the input file
\* (the first of the list) failed, and every other local file is deleted
C21_Witness ==
  /\ rep.pc = "exit0"
  /\ rep.failed = {InputFile} /\ rep.files = {InputFile}
  /\ Len(rep.temp_files) = 2

\* a message that the front end published (json.dumps of the item it wrote)
FrontEndMsg(m) == "submit_time" \in DOMAIN m.body.data

\* C22: every notification that the front end published, queued or already
\* deleted, names a job whose record is in the table; and a job id whose
\* put_item failed (the id was generated, no record exists) has no notification
\* and is not about to get one.
C22_PublishOnlyAfterRecord ==
  /\ \A m \in sent : FrontEndMsg(m) => table[MsgKey(m)] # NoItem
  /\ fe.pc = "publish"
       => table[[user_id |-> fe.item["user_id"], job_id |-> fe.item["job_id"]]] # NoItem
  /\ \A u \in Users, j \in usedIds :
       table[[user_id |-> u, job_id |-> j]] = NoItem
         => \A m \in sent : Get(m.body.data, "job_id") # j

\* C22 witness: the put_item of one request failed and nothing was published
\* for its id, and the notification of another request is queued with its
\* record in the table
C22_Witness ==
  /\ usedIds = {"j1", "j2"} /\ fe.pc = "idle"
  /\ table[[user_id |-> "u1", job_id |-> "j1"]] = NoItem
  /\ \E m \in queue : FrontEndMsg(m) /\ MsgKey(m).job_id = "j2"
  /\ Status([user_id |-> "u1", job_id |-> "j2"]) = "PENDING"

\* C23: a webhook call receives at most one message; the only change a
\* handler makes to the queue is the deletion of the one message it received,
\* made once, at the end of a Notification call; the answer 202 is given only
\* in the step whose delete_message returned, for a launched job, leaving the
\* message out of the queue; and a call of
\* type SubscriptionConfirmation or of any other type receives nothing and
\* changes neither the queue nor the table.
C23_WebhookOneMessagePerCall ==
  [][\A w \in Webhooks :
       /\ pc'[w] # pc[w] => deliveries' - deliveries <= 1
       /\ (pc'[w] # pc[w] /\ queue' # queue)
            => (pc[w] = "ack" /\ pc'[w] = "respond"
                /\ queue' = queue \ {cur[w].msg})
       /\ (resp'[w] = "202 Job accepted" /\ resp[w] # resp'[w])
            => (pc[w] = "ack" /\ cur[w].launch = "ok"
                /\ cur[w].msg \notin queue')
       /\ \A type \in RequestTypes \ {"Notification"} :
            \A fault \in BOOLEAN, b \in SUBSET queue :
              WRequest(w, type, fault, b)
                => (queue' = queue /\ table' = table /\ deliveries' = deliveries
                    /\ procs' = procs)]_vars

\* C23 witness: the handler answers 202 to a Notification call: the one
\* message it received is deleted, its job is RUNNING with run.py started,
\* and the other message of the queue is still there, never handed out
C23_Witness ==
  \E w \in Webhooks \cap deployed :
    /\ pc[w] = "respond" /\ resp[w] = "202 Job accepted"
    /\ deliveries = 1
    /\ Cardinality(sent) = 2 /\ Cardinality(queue) = 1
    /\ \E m \in sent \ queue :
         /\ FrontEndMsg(m) /\ Status(MsgKey(m)) = "RUNNING"
         /\ \E p \in procs : p.job_id = MsgKey(m).job_id

\* the attributes of a record that are set at creation and never again
Immutable == {"user_id", "job_id", "input_file_name", "s3_inputs_bucket",
              "s3_key_input_file", "submit_time"}
\* an item that the front end wrote
FrontEndItem(item) == item # NoItem /\ "submit_time" \in DOMAIN item

\* C24: no step removes a record that the front end wrote or changes its
\* user_id, job_id, input bucket, input key, file name or submit_time: after
\* every step each such record carries the values written at its creation.
C24_CreationAttrsImmutable ==
  [][\A k \in TableKeys :
       /\ FrontEndRecord(k) => FrontEndItem(table'[k])
       /\ FrontEndItem(table'[k])
            => \A a \in Immutable :
                 table'[k][a] = NewItem(k.user_id, k.job_id)[a]]_vars

\* C24 witness: a record that the front end wrote has been written by a
\* dispatcher (it is FAILED) and run.py has made its update call for the job
C24_Witness ==
  \E k \in TableKeys :
    /\ FrontEndRecord(k) /\ Status(k) = "FAILED"
    /\ \E p \in procs : ProcKey(p) = k /\ p.pc = "done"

\* C25: whenever a step puts a record into the table where there was none,
\* the record is the item of a front-end job request.
C25_OnlyFrontEndCreatesRecords ==
  [][\A k \in TableKeys :
       (table[k] = NoItem /\ table'[k] # NoItem) => FrontEndItem(table'[k])]_vars

\* the record of the job that the run.py process followed step by step works for
RepKey == [user_id |-> "u1", job_id |-> rep.job_id]

\* C26: whenever the reporter's cleanup has removed the input file and the
\* result file of its job, the job's record is COMPLETED.
C26_CleanupOnlyAfterFinalize ==
  (rep.pc \in {"cleanup", "exit0"}
     /\ InputFile \notin rep.files /\ AnnotatedPath \notin rep.files)
    => Status(RepKey) = "COMPLETED"

\* the job-creation request that wrote the record with key k is still between
\* its put_item and its publish
RequestInProgress(k) ==
  fe.pc = "publish" /\ fe.item["user_id"] = k.user_id /\ fe.item["job_id"] = k.job_id

\* C27: once the job-creation request that wrote a record has ended, a
\* notification for the record's job has been published whenever the record
\* is PENDING.
C27_EveryRecordGetsNotification ==
  \A k \in TableKeys :
    (FrontEndRecord(k) /\ Status(k) = "PENDING" /\ ~RequestInProgress(k))
      => \E m \in sent : FrontEndMsg(m) /\ MsgKey(m) = k

====
